---- MODULE Spec2Model ----
(***************************************************************************)
(* Telegram note bot (src/src/index.ts): the authorization gate, the       *)
(* sequential dispatch queue (messageQueue, isProcessing, processQueue),   *)
(* processMessage with its attachment fetches (downloadFile), the record   *)
(* formatter and the day-file writer (appendToNotes).                      *)
(*                                                                         *)
(* One action is one turn of the Node event loop: the synchronous code     *)
(* that runs from an event (an update delivered by the transport, the      *)
(* settling of a promise the coroutine awaits, an fs callback) up to the   *)
(* next suspension at an await.                                            *)
(*                                                                         *)
(* Strings that the code takes apart (file names) are sequences of         *)
(* one-character strings; all other text is a sequence of string tokens,   *)
(* and template-literal concatenation is sequence concatenation.           *)
(* An optional field is a sequence of length 0 (absent) or 1 (present).    *)
(***************************************************************************)
EXTENDS Integers, Sequences, FiniteSets, TLC

(***************************************************************************)
(* Bounds of the model.                                                    *)
(***************************************************************************)
\* number of updates the transport delivers in one behaviour
MaxUpdates == 3

\* number of failures (of a fetch, a write or a reply) in one behaviour
MaxFaults == 1

(***************************************************************************)
(* Configuration and constants of the program.                             *)
(***************************************************************************)
\* process.env.ALLOWED_USER_ID: a string
ALLOWED_USER_ID == "42"

MONTH_NAMES ==
  <<"jan", "feb", "mar", "apr", "may", "jun", "jul", "aug", "sep", "oct", "nov", "dec">>

NOTES_DIR == <<"notes", "/">>

\* the test of the voice clip moved before the test of the document
KindsVoiceFirst == <<"photo", "voice", "document", "video", "audio", "video_note">>

\* the attachment kinds in the order processMessage tests them
Kinds == <<"photo", "document", "video", "audio", "voice", "video_note">>

\* the type label pushed with each kind
TypeLabel ==
  [photo |-> "Photo", document |-> "Document", video |-> "Video",
   audio |-> "Audio", voice |-> "Voice", video_note |-> "Video Note"]

(***************************************************************************)
(* The wall clock: the instants at which the program may read new Date()   *)
(* and Date.now().  getMonth() is 0-based, sec is the local time of day in *)
(* seconds.  Instants 1 and 2 are either side of a midnight, instant 3 is  *)
(* later on the day of instant 2, and instant 4 is the same day and month  *)
(* one year on.                                                            *)
(***************************************************************************)
Instants ==
  << [year |-> 2025, month |-> 10, date |-> 4, sec |-> 86399],
     [year |-> 2025, month |-> 10, date |-> 5, sec |-> 1],
     [year |-> 2025, month |-> 10, date |-> 5, sec |-> 43200],
     [year |-> 2026, month |-> 10, date |-> 5, sec |-> 1] >>

\* Math.random().toString(36).substring(2, 8): the tokens drawn in the model
RandomTokens == {"k3x9qa", "zz01bc"}


(***************************************************************************)
(* Updates the transport may deliver.  from is ctx.from?.id?.toString()    *)
(* (absent for an update without sender), payload says whether ctx.message *)
(* exists, the rest are the fields of IncomingMessage.                     *)
(***************************************************************************)
Blank ==
  [from |-> <<>>, payload |-> TRUE, date |-> <<>>, text |-> <<>>, caption |-> <<>>,
   photo |-> <<>>, document |-> <<>>, video |-> <<>>, audio |-> <<>>,
   voice |-> <<>>, video_note |-> <<>>,
   forward_from |-> <<>>, forward_from_chat |-> <<>>, forward_sender_name |-> <<>>]

Owner == [Blank EXCEPT !.from = <<ALLOWED_USER_ID>>]

TextUpdate == [Owner EXCEPT !.date = <<3661>>, !.text = <<"buy milk">>]

PhotoUpdate ==
  [Owner EXCEPT !.caption = <<"sunset">>,
                !.photo = << [file_id |-> "ph_small"], [file_id |-> "ph_large"] >>]

DocVoiceUpdate ==
  [Owner EXCEPT !.date = <<7322>>,
                !.document = << [file_id |-> "doc1",
                                 file_name |-> << <<"p", " ", "2", ".", "d">> >>] >>,
                !.voice = << [file_id |-> "vo1"] >>]

IntruderUpdate ==
  [Blank EXCEPT !.from = <<"7">>, !.text = <<"spam">>,
                !.photo = << [file_id |-> "ph_x"] >>]

AnonymousUpdate == [Blank EXCEPT !.text = <<"spam">>]

EmptyUpdate == [Owner EXCEPT !.payload = FALSE]

Updates ==
  {TextUpdate, PhotoUpdate, DocVoiceUpdate, IntruderUpdate, AnonymousUpdate, EmptyUpdate}

\* a text message whose own date is on the day after TextUpdate's
LateTextUpdate == [Owner EXCEPT !.date = <<90000>>, !.text = <<"call mom">>]

\* photo messages offering one and three resolution variants
ThumbUpdate == [Owner EXCEPT !.photo = << [file_id |-> "th_only"] >>]

PanoramaUpdate ==
  [Owner EXCEPT !.photo = << [file_id |-> "pa_small"], [file_id |-> "pa_medium"],
                             [file_id |-> "pa_large"] >>]

\* one message per attachment kind that PhotoUpdate and DocVoiceUpdate leave
\* out: a document and an audio without declared file name, an audio with
\* one, a video and a video note
BareDocumentUpdate ==
  [Owner EXCEPT !.document = << [file_id |-> "doc2", file_name |-> <<>>] >>]

BareAudioUpdate == [Owner EXCEPT !.audio = << [file_id |-> "au1", file_name |-> <<>>] >>]

SongUpdate ==
  [Owner EXCEPT !.audio = << [file_id |-> "au2",
                              file_name |-> << <<"a", ".", "m">> >>] >>]

VideoUpdate == [Owner EXCEPT !.caption = <<"clip">>, !.video = << [file_id |-> "vi1"] >>]

VideoNoteUpdate == [Owner EXCEPT !.video_note = << [file_id |-> "vn1"] >>]

\* a message with both a text and a caption, and one with none of the fields
\* processMessage reads (a sticker)
TextAndCaptionUpdate == [Owner EXCEPT !.date = <<3661>>, !.text = <<"buy milk">>,
                                      !.caption = <<"sunset">>]

StickerUpdate == [Owner EXCEPT !.date = <<59>>]

\* TextUpdate with every combination of the forward fields
ForwardUpdates ==
  {[TextUpdate EXCEPT !.forward_from = ff, !.forward_from_chat = fc,
                      !.forward_sender_name = fs] :
     ff \in {<<>>, << [username |-> <<"alice">>, first_name |-> <<"Alice">>] >>,
             << [username |-> <<>>, first_name |-> <<"Alice">>] >>},
     fc \in {<<>>, << [title |-> <<"News">>] >>},
     fs \in {<<>>, <<"Bob">>}}

(***************************************************************************)
(* The environment of a behaviour: the updates the transport may deliver   *)
(* and how many of them, the last instant the clock reaches, the tokens    *)
(* Math.random may yield, and how many failures happen.                    *)
(***************************************************************************)
\* a burst of messages of the owner, within one instant
Burst ==
  [updates |-> {TextUpdate, PhotoUpdate}, budget |-> MaxUpdates, horizon |-> 1,
   tokens |-> {"k3x9qa"}, faults |-> MaxFaults]

\* every kind of update, within one instant
Mixed ==
  [updates |-> Updates, budget |-> MaxUpdates - 1, horizon |-> 1,
   tokens |-> {"k3x9qa"}, faults |-> MaxFaults]

\* two messages of the owner while the clock runs over the four instants
Calendar ==
  [updates |-> {TextUpdate, LateTextUpdate}, budget |-> MaxUpdates - 1,
   horizon |-> Len(Instants), tokens |-> {"k3x9qa"}, faults |-> MaxFaults - 1]

\* photo messages, Math.random yielding either token, the clock at either
\* of two instants
Album ==
  [updates |-> {ThumbUpdate, PanoramaUpdate}, budget |-> MaxUpdates - 1,
   horizon |-> 2, tokens |-> RandomTokens, faults |-> MaxFaults - 1]

\* one message with each kind of attachment
Media ==
  [updates |-> {DocVoiceUpdate, BareDocumentUpdate, BareAudioUpdate, SongUpdate,
                VideoUpdate, VideoNoteUpdate},
   budget |-> MaxUpdates - 2, horizon |-> 1, tokens |-> {"k3x9qa"}, faults |-> MaxFaults]

\* one message with each shape of body and provenance
Forwarded ==
  [updates |-> ForwardUpdates \cup {TextAndCaptionUpdate, StickerUpdate, PhotoUpdate},
   budget |-> MaxUpdates - 2, horizon |-> 1, tokens |-> {"k3x9qa"},
   faults |-> MaxFaults - 1]

Environments == {Burst, Mixed, Calendar, Album, Media, Forwarded}

(***************************************************************************)
(* Helpers on sequences.                                                   *)
(***************************************************************************)
IsPrefix(s, t) == Len(s) <= Len(t) /\ SubSeq(t, 1, Len(s)) = s

RECURSIVE Flatten(_)
Flatten(ss) == IF ss = <<>> THEN <<>> ELSE Head(ss) \o Flatten(Tail(ss))

\* JavaScript truthiness of an optional string token: present and not ''
Truthy(opt) == opt # <<>> /\ opt[1] # ""

\* JavaScript truthiness of an optional character string: present and not ''
TruthyName(opt) == opt # <<>> /\ opt[1] # <<>>

\* the characters of the literals the code passes to generateFileName
Chars(lit) ==
  CASE lit = "photo" -> <<"p", "h", "o", "t", "o">>
    [] lit = "document" -> <<"d", "o", "c", "u", "m", "e", "n", "t">>
    [] lit = "video" -> <<"v", "i", "d", "e", "o">>
    [] lit = "audio" -> <<"a", "u", "d", "i", "o">>
    [] lit = "voice" -> <<"v", "o", "i", "c", "e">>
    [] lit = "video_note" -> <<"v", "i", "d", "e", "o", "_", "n", "o", "t", "e">>
    [] lit = "file" -> <<"f", "i", "l", "e">>
    [] lit = ".jpg" -> <<".", "j", "p", "g">>
    [] lit = ".mp4" -> <<".", "m", "p", "4">>
    [] lit = ".mp3" -> <<".", "m", "p", "3">>
    [] lit = ".ogg" -> <<".", "o", "g", "g">>
    [] lit = ".bin" -> <<".", "b", "i", "n">>
    [] lit = "" -> <<>>

(***************************************************************************)
(* Timestamp and file-name utilities.                                      *)
(***************************************************************************)
\* n.toString().padStart(2, '0')
PadStart2(n) == IF n < 10 THEN <<"0", ToString(n)>> ELSE <<ToString(n)>>

\* getTimestamp: the message's date when it is truthy, else the clock;
\* the local zone of the model is UTC
getTimestamp(unixTimestamp, t) ==
  LET sec == IF unixTimestamp # <<>> /\ unixTimestamp[1] # 0
             THEN unixTimestamp[1] % 86400
             ELSE Instants[t].sec
      hours == sec \div 3600
      minutes == (sec % 3600) \div 60
      seconds == sec % 60
  IN PadStart2(hours) \o <<":">> \o PadStart2(minutes) \o <<":">> \o PadStart2(seconds)

\* a day-file name that also carries the hour of the clock
DayFileOfTheHour(t) ==
  NOTES_DIR \o <<ToString(Instants[t].date), "-", MONTH_NAMES[Instants[t].month + 1],
                 "-", ToString(Instants[t].sec \div 3600), ".md">>

\* getDayNotesFile: notes/{day}-{month}.md of the clock's local date
getDayNotesFile(t) ==
  NOTES_DIR \o <<ToString(Instants[t].date), "-", MONTH_NAMES[Instants[t].month + 1], ".md">>

AlphaNum ==
  {"a", "b", "c", "d", "e", "f", "g", "h", "i", "j", "k", "l", "m", "n", "o", "p", "q",
   "r", "s", "t", "u", "v", "w", "x", "y", "z",
   "A", "B", "C", "D", "E", "F", "G", "H", "I", "J", "K", "L", "M", "N", "O", "P", "Q",
   "R", "S", "T", "U", "V", "W", "X", "Y", "Z",
   "0", "1", "2", "3", "4", "5", "6", "7", "8", "9"}

\* baseName.replace(/[^a-z0-9]/gi, '_')
Sanitize(name) == [i \in DOMAIN name |-> IF name[i] \in AlphaNum THEN name[i] ELSE "_"]

\* generateFileName: `${timestamp}_${random}_${sanitized}${extension}`
generateFileName(baseName, extension, t, random) ==
  LET sanitized == IF baseName # <<>> THEN Sanitize(baseName) ELSE Chars("file")
  IN <<ToString(t), "_", random, "_">> \o sanitized \o extension

\* the index of the last occurrence of c in s, 0 when there is none
LastIndexOf(s, c) ==
  LET hits == {i \in DOMAIN s : s[i] = c}
  IN IF hits = {} THEN 0 ELSE CHOOSE i \in hits : \A j \in hits : j <= i

\* the last portion of a path
LastPortion(p) == SubSeq(p, LastIndexOf(p, "/") + 1, Len(p))

\* path.extname
extname(p) ==
  LET base == LastPortion(p)
      dot == LastIndexOf(base, ".")
  IN IF dot <= 1 \/ base = <<".", ".">> THEN <<>> ELSE SubSeq(base, dot, Len(base))

\* path.basename(p, ext)
basename(p, ext) ==
  LET base == LastPortion(p)
      cut == Len(base) - Len(ext)
  IN IF ext # <<>> /\ cut > 0 /\ SubSeq(base, cut + 1, Len(base)) = ext
     THEN SubSeq(base, 1, cut)
     ELSE base

(***************************************************************************)
(* Record formatter.                                                       *)
(***************************************************************************)
\* `${x}` of an optional string: 'undefined' when absent
Interpolate(opt) == IF opt = <<>> THEN "undefined" ELSE opt[1]

\* the chat tested before the user
ForwardInfoChatFirst(message) ==
  IF message.forward_from_chat # <<>>
  THEN <<" - Forwarded from ", Interpolate(message.forward_from_chat[1].title)>>
  ELSE IF message.forward_from # <<>>
  THEN LET user == message.forward_from[1]
           forwardedFrom == IF Truthy(user.username)
                            THEN <<"@", user.username[1]>>
                            ELSE <<Interpolate(user.first_name)>>
       IN <<" - Forwarded from ">> \o forwardedFrom
  ELSE IF Truthy(message.forward_sender_name)
  THEN <<" - Forwarded from ", message.forward_sender_name[1]>>
  ELSE <<>>

\* formatForwardInfo
formatForwardInfo(message) ==
  IF message.forward_from # <<>>
  THEN LET user == message.forward_from[1]
           forwardedFrom == IF Truthy(user.username)
                            THEN <<"@", user.username[1]>>
                            ELSE <<Interpolate(user.first_name)>>
       IN <<" - Forwarded from ">> \o forwardedFrom
  ELSE IF message.forward_from_chat # <<>>
  THEN <<" - Forwarded from ", Interpolate(message.forward_from_chat[1].title)>>
  ELSE IF Truthy(message.forward_sender_name)
  THEN <<" - Forwarded from ", message.forward_sender_name[1]>>
  ELSE <<>>

\* the caption tested before the text
HeaderCaptionFirst(message, t) ==
  <<"\n---\n", "**">> \o getTimestamp(message.date, t) \o <<"**">>
    \o formatForwardInfo(message) \o <<"\n\n">>
    \o (IF Truthy(message.caption) THEN <<message.caption[1], "\n">>
        ELSE IF Truthy(message.text) THEN <<message.text[1], "\n">>
        ELSE <<>>)

\* processMessage up to the attachments: separator, timestamp, provenance, body
Header(message, t) ==
  <<"\n---\n", "**">> \o getTimestamp(message.date, t) \o <<"**">>
    \o formatForwardInfo(message) \o <<"\n\n">>
    \o (IF Truthy(message.text) THEN <<message.text[1], "\n">>
        ELSE IF Truthy(message.caption) THEN <<message.caption[1], "\n">>
        ELSE <<>>)

\* a line that always shows the stored name
AttachmentLineStoredName(att) ==
  LET isImage == att.type \in {"Photo", "Video", "Video Note"}
  IN IF isImage
     THEN <<"![">> \o att.name \o <<"](../attachments/">> \o att.name \o <<")\n">>
     ELSE <<"- [">> \o att.name \o <<"](../attachments/">> \o att.name
            \o <<") _(", att.type, ")_\n">>

\* one line of the Attachments section
AttachmentLine(att) ==
  LET displayName == IF TruthyName(att.originalName) THEN att.originalName[1] ELSE att.name
      isImage == att.type \in {"Photo", "Video", "Video Note"}
  IN IF isImage
     THEN <<"![">> \o displayName \o <<"](../attachments/">> \o att.name \o <<")\n">>
     ELSE <<"- [">> \o displayName \o <<"](../attachments/">> \o att.name
            \o <<") _(", att.type, ")_\n">>

\* the Attachments section, empty when no fetch succeeded
AttachmentsSection(attachments) ==
  IF Len(attachments) > 0
  THEN <<"\n**Attachments:**\n">>
         \o Flatten([i \in DOMAIN attachments |-> AttachmentLine(attachments[i])])
  ELSE <<>>

\* the fragment handed to appendToNotes
Fragment(markdownContent, attachments) ==
  markdownContent \o AttachmentsSection(attachments) \o <<"\n---\n">>

(***************************************************************************)
(* The attachments of a message.                                           *)
(***************************************************************************)
\* the presence test of each kind
HasKind(message, kind) ==
  IF kind = "photo" THEN Len(message.photo) > 0 ELSE message[kind] # <<>>

\* the first kind at or after index i that the message carries, 0 when none
NextKind(message, i) ==
  LET js == {j \in i..Len(Kinds) : HasKind(message, Kinds[j])}
  IN IF js = {} THEN 0 ELSE CHOOSE j \in js : \A k \in js : j <= k

\* the first variant in the place of the last
FirstVariant(photo) == photo[1]

\* the photo variant that is fetched
SelectPhoto(photo) == photo[Len(photo)]

\* what processMessage asks downloadFile for, per kind: the media reference,
\* the arguments of generateFileName and the originalName pushed on success
FetchRequest(message, kind) ==
  CASE kind = "photo" ->
         [file_id |-> SelectPhoto(message.photo).file_id, baseName |-> Chars("photo"),
          extension |-> Chars(".jpg"), originalName |-> <<>>]
    [] kind = "document" ->
         LET document == message.document[1]
             named == TruthyName(document.file_name)
             extension == IF named THEN extname(document.file_name[1]) ELSE <<>>
             baseName == IF named THEN basename(document.file_name[1], extension)
                         ELSE Chars("document")
         IN [file_id |-> document.file_id, baseName |-> baseName,
             extension |-> IF extension # <<>> THEN extension ELSE Chars(".bin"),
             originalName |-> IF named THEN document.file_name ELSE <<baseName>>]
    [] kind = "video" ->
         [file_id |-> message.video[1].file_id, baseName |-> Chars("video"),
          extension |-> Chars(".mp4"), originalName |-> <<>>]
    [] kind = "audio" ->
         LET audio == message.audio[1]
             named == TruthyName(audio.file_name)
             extension == IF named THEN extname(audio.file_name[1]) ELSE Chars(".mp3")
             baseName == IF named THEN basename(audio.file_name[1], extension)
                         ELSE Chars("audio")
         IN [file_id |-> audio.file_id, baseName |-> baseName, extension |-> extension,
             originalName |-> IF named THEN audio.file_name ELSE <<baseName>>]
    [] kind = "voice" ->
         [file_id |-> message.voice[1].file_id, baseName |-> Chars("voice"),
          extension |-> Chars(".ogg"), originalName |-> <<>>]
    [] kind = "video_note" ->
         [file_id |-> message.video_note[1].file_id, baseName |-> Chars("video_note"),
          extension |-> Chars(".mp4"), originalName |-> <<>>]

(***************************************************************************)
(* State.                                                                  *)
(***************************************************************************)
VARIABLES
  env,              \* the environment of the behaviour, an element of Environments
  alive,            \* the Node process is running
  now,              \* the wall clock when it was last read: an index into Instants
  messageQueue,     \* the buffer of MessageContext
  isProcessing,     \* the busy flag
  loops,            \* the suspended processQueue coroutines, one frame each
  notesFiles,       \* notes/: path -> content
  attachmentFiles,  \* attachments/: file name -> [file_id, complete]
  pendingUnlink,    \* fs.unlink calls whose callback has not run yet
  delivered,        \* number of updates delivered so far (the next update_id)
  lastFrom,         \* ctx.from?.id?.toString() of the update handled last
  enqueued,         \* history: the contexts pushed, in push order
  appendLog,        \* history: the calls of appendToNotes, in call order
  acks,             \* the calls of ctx.reply in call order, each with its status
  faults,           \* number of failures injected so far
  botErrors         \* the update_ids for which the handler of bot.catch has run

vars ==
  <<env, alive, now, messageQueue, isProcessing, loops, notesFiles, attachmentFiles,
    pendingUnlink, delivered, lastFrom, enqueued, appendLog, acks, faults, botErrors>>

Range(s) == {s[i] : i \in DOMAIN s}

Ids(log) == {log[i].update_id : i \in DOMAIN log}

\* the state after construction, in environment e
Start(e) ==
  /\ env = e
  /\ alive = TRUE
  /\ now = 1
  /\ messageQueue = <<>>
  /\ isProcessing = FALSE
  /\ loops = {}
  /\ notesFiles = [p \in {} |-> <<>>]
  /\ attachmentFiles = [n \in {} |-> <<>>]
  /\ pendingUnlink = {}
  /\ delivered = 0
  /\ lastFrom = <<>>
  /\ enqueued = <<>>
  /\ appendLog = <<>>
  /\ acks = <<>>
  /\ faults = 0
  /\ botErrors = {}

Init == \E e \in Environments : Start(e)

\* the instants at which the clock may be read next: time does not go back
Later == now..env.horizon

\* whether one more failure may happen after spent more of this turn
MayFail(spent) == faults + spent < env.faults

\* the outcomes of a write of this turn
WriteOutcomes(spent) == IF MayFail(spent) THEN BOOLEAN ELSE {TRUE}

(***************************************************************************)
(* Authorization gate and dispatch queue.                                  *)
(***************************************************************************)
\* the handler without the comparison with ALLOWED_USER_ID
AnySender(userId) == Truthy(userId)

\* the two tests of the handler on ctx.from?.id?.toString()
Authorized(userId) == Truthy(userId) /\ userId[1] = ALLOWED_USER_ID

\* processQueue without the test of the busy flag
GuardWithoutBusyFlag(busy, queue) == ~(Len(queue) = 0)

\* processQueue goes on past its first line
ProcessQueueGuard(busy, queue) == ~(busy \/ Len(queue) = 0)

\* messageQueue.pop() in the place of shift()
Pop(queue) == [ctx |-> queue[Len(queue)], rest |-> SubSeq(queue, 1, Len(queue) - 1)]

\* the first context read without being removed
Peek(queue) == [ctx |-> Head(queue), rest |-> queue]

\* messageQueue.shift(): the context removed and the buffer left
Shift(queue) == [ctx |-> Head(queue), rest |-> Tail(queue)]

(***************************************************************************)
(* Note archive writer.                                                    *)
(***************************************************************************)
\* fs.writeFileSync in the place of appendFileSync
writeFileSync(old, data) == data

\* fs.appendFileSync on a file with content old (empty when it does not exist)
appendFileSync(old, data) == old \o data

\* appendToNotes without its try/catch
PropagatesFailure(ok) == ~ok

\* does a failure of the write leave appendToNotes as an exception
Propagates(ok) == FALSE

\* the notes directory after appendToNotes(content) at instant t; ok is
\* whether the write succeeds
appendToNotes(files, content, t, ok) ==
  LET notesFile == getDayNotesFile(t)
      old == IF notesFile \in DOMAIN files THEN files[notesFile] ELSE <<>>
  IN IF ok
     THEN [p \in DOMAIN files \cup {notesFile} |->
             IF p = notesFile THEN appendFileSync(old, content \o <<"\n">>) ELSE files[p]]
     ELSE files

(***************************************************************************)
(* processMessage as a coroutine.  A frame is suspended at pc:             *)
(*   "getFileLink"  in downloadFile, awaiting bot.telegram.getFileLink     *)
(*   "transfer"     in downloadFile, awaiting the promise of the stream    *)
(*   "reply"        awaiting ctx.reply                                     *)
(*   "stalled"      awaiting a promise that nothing will settle            *)
(*   "uncaught"     where an uncaught exception ended the process          *)
(* fetched is the history of the frame's downloadFile calls.               *)
(***************************************************************************)
\* the reply awaited before the call of appendToNotes
ReplyBeforeAppend == <<"reply", "appendToNotes">>

\* the statements of processMessage after the attachments, in order
AfterFetches == <<"appendToNotes", "reply">>

ReplyAt == CHOOSE i \in DOMAIN AfterFetches : AfterFetches[i] = "reply"

AppendsBeforeReply == \E i \in 1..(ReplyAt - 1) : AfterFetches[i] = "appendToNotes"

AppendsAfterReply ==
  \E i \in (ReplyAt + 1)..Len(AfterFetches) : AfterFetches[i] = "appendToNotes"

\* the frame after running processMessage from the test of kind i up to its
\* next await: the next fetch, or the reply once the fragment is complete
Continue(f, i, t, random) ==
  LET j == NextKind(f.ctx.message, i)
  IN IF j = 0
     THEN [f EXCEPT !.pc = "reply", !.kind = 0, !.fileName = <<>>,
                    !.markdownContent = Fragment(f.markdownContent, f.attachments)]
     ELSE LET rq == FetchRequest(f.ctx.message, Kinds[j])
          IN [f EXCEPT !.pc = "getFileLink", !.kind = j,
                       !.fileName = generateFileName(rq.baseName, rq.extension, t, random)]

\* processMessage(ctx) from its first line up to its first await
processMessage(ctx, t, random) ==
  Continue([ctx |-> ctx, pc |-> "start", kind |-> 0, fileName |-> <<>>,
            markdownContent |-> Header(ctx.message, t), attachments |-> <<>>,
            fetched |-> <<>>],
           1, t, random)

\* `if (saved) attachments.push(...)`
Push(f, saved) ==
  IF saved # <<>>
  THEN Append(f.attachments,
              [name |-> saved[1], type |-> TypeLabel[Kinds[f.kind]],
               originalName |-> FetchRequest(f.ctx.message, Kinds[f.kind]).originalName])
  ELSE f.attachments

\* frame f with the outcome of the fetch it is suspended in recorded
Fetched(f, cause, result) ==
  [f EXCEPT !.fetched =
     Append(@, [kind |-> Kinds[f.kind],
                file_id |-> FetchRequest(f.ctx.message, Kinds[f.kind]).file_id,
                fileName |-> f.fileName, cause |-> cause, result |-> result])]

\* the replies with the pending reply of the frames in settled delivered
Settled(replies, settled) ==
  [i \in DOMAIN replies |->
     IF replies[i].status = "pending"
        /\ \E k \in DOMAIN settled : settled[k].ctx.update_id = replies[i].update_id
     THEN [replies[i] EXCEPT !.status = "delivered"]
     ELSE replies[i]]

RECURSIVE Written(_, _, _, _)
Written(files, frames, t, ok) ==
  IF frames = <<>> THEN files
  ELSE Written(appendToNotes(files, Head(frames).markdownContent, t, ok), Tail(frames), t, ok)

\* The effects of a turn of the running coroutine at instant t.  next holds
\* the frame it is suspended in afterwards (none when processQueue returned),
\* others are the other coroutines.  late are the frames whose appendToNotes
\* runs after their reply settled; the appendToNotes of the frame in next runs
\* when it comes before the reply.  ok is whether the writes of this turn
\* succeed.  An exception out of processMessage rejects the promise of
\* processQueue, which nothing awaits: the coroutine is gone, isProcessing is
\* left as it is, and the unhandled rejection ends the process or is only
\* warned about, according to the runtime's unhandled-rejections mode (crash).
\* settled holds the frame whose reply resolved in this turn; spent is the
\* number of failures that brought this turn about.
Suspend(others, next, late, settled, t, ok, crash, spent) ==
  LET replying == next # <<>> /\ next[1].pc = "reply"
      own == IF replying /\ AppendsBeforeReply THEN next ELSE <<>>
      writes == late \o own
      thrown == writes # <<>> /\ Propagates(ok)
  IN /\ now' = t
     /\ faults' = faults + spent + (IF writes # <<>> /\ ~ok THEN 1 ELSE 0)
     /\ notesFiles' = Written(notesFiles, writes, t, ok)
     /\ appendLog' = appendLog \o
          [i \in DOMAIN writes |->
             [update_id |-> writes[i].ctx.update_id, at |-> t, file |-> getDayNotesFile(t),
              content |-> writes[i].markdownContent, ok |-> ok]]
     /\ IF thrown
        THEN /\ loops' = others
             /\ acks' = Settled(acks, settled)
             /\ alive' = ~crash
        ELSE /\ loops' = others \cup Range(next)
             /\ acks' = Settled(acks, settled) \o
                          (IF replying
                           THEN <<[update_id |-> next[1].ctx.update_id, status |-> "pending"]>>
                           ELSE <<>>)
             /\ alive' = alive

(***************************************************************************)
(* bot.on('message'): the handler, with the synchronous part of the        *)
(* processQueue() it calls.                                                *)
(***************************************************************************)
OnMessage(u) ==
  /\ alive
  /\ UNCHANGED <<env, botErrors>>
  /\ u \in env.updates
  /\ delivered < env.budget
  /\ delivered' = delivered + 1
  /\ lastFrom' = u.from
  /\ UNCHANGED <<attachmentFiles, pendingUnlink>>
  /\ IF ~Authorized(u.from) \/ ~u.payload
     THEN UNCHANGED <<alive, now, messageQueue, isProcessing, loops, notesFiles, enqueued,
                      appendLog, acks, faults>>
     ELSE LET ctx == [update_id |-> delivered + 1, message |-> u]
              queue == Append(messageQueue, ctx)
          IN /\ enqueued' = Append(enqueued, [update_id |-> ctx.update_id, message |-> u,
                                               busy |-> isProcessing])
             /\ IF ProcessQueueGuard(isProcessing, queue)
                THEN /\ isProcessing' = TRUE
                     /\ messageQueue' = Shift(queue).rest
                     /\ \E t \in Later, random \in env.tokens, ok \in WriteOutcomes(0),
                           crash \in BOOLEAN :
                          Suspend(loops, <<processMessage(Shift(queue).ctx, t, random)>>,
                                  <<>>, <<>>, t, ok, crash, 0)
                ELSE /\ messageQueue' = queue
                     /\ UNCHANGED <<alive, now, isProcessing, loops, notesFiles,
                                    appendLog, acks, faults>>

(***************************************************************************)
(* downloadFile.                                                           *)
(***************************************************************************)
\* fs.createWriteStream(filePath): the file is created, or truncated
createWriteStream(files, fileName, file_id) ==
  [n \in DOMAIN files \cup {fileName} |->
     IF n = fileName THEN [file_id |-> file_id, complete |-> FALSE] ELSE files[n]]

\* the file closed after 'finish'
Finished(files, fileName) ==
  [n \in DOMAIN files |-> IF n = fileName THEN [files[n] EXCEPT !.complete = TRUE]
                          ELSE files[n]]

\* the directory without fileName
Unlinked(files, fileName) == [n \in DOMAIN files \ {fileName} |-> files[n]]

\* downloadFile returned saved (a file name, or none for null) because of
\* cause: the coroutine runs on to its next await
Resume(f, cause, saved) ==
  /\ \E t \in Later, random \in env.tokens,
        ok \in WriteOutcomes(IF saved = <<>> THEN 1 ELSE 0), crash \in BOOLEAN :
       Suspend(loops \ {f},
               <<Continue([Fetched(f, cause, IF saved # <<>> THEN "saved" ELSE "null")
                             EXCEPT !.attachments = Push(f, saved)],
                          f.kind + 1, t, random)>>,
               <<>>, <<>>, t, ok, crash, IF saved = <<>> THEN 1 ELSE 0)
  /\ UNCHANGED <<messageQueue, isProcessing, delivered, lastFrom, enqueued>>

\* getFileLink resolves: the write stream is created and the request sent
GetFileLinkResolve(f) ==
  /\ alive
  /\ UNCHANGED <<env, botErrors>>
  /\ f.pc = "getFileLink"
  /\ attachmentFiles' =
       createWriteStream(attachmentFiles, f.fileName,
                         FetchRequest(f.ctx.message, Kinds[f.kind]).file_id)
  /\ loops' = (loops \ {f}) \cup {[f EXCEPT !.pc = "transfer"]}
  /\ UNCHANGED <<alive, now, messageQueue, isProcessing, notesFiles, pendingUnlink,
                 delivered, lastFrom, enqueued, appendLog, acks, faults>>

\* getFileLink rejects: caught, downloadFile returns null
GetFileLinkReject(f) ==
  /\ alive
  /\ UNCHANGED <<env, botErrors>>
  /\ f.pc = "getFileLink"
  /\ MayFail(0)
  /\ Resume(f, "resolution", <<>>)
  /\ UNCHANGED <<attachmentFiles, pendingUnlink>>

\* 'finish' of the write stream: the promise resolves with the file name
TransferFinish(f) ==
  /\ alive
  /\ UNCHANGED <<env, botErrors>>
  /\ f.pc = "transfer"
  /\ attachmentFiles' = Finished(attachmentFiles, f.fileName)
  /\ Resume(f, "finish", <<f.fileName>>)
  /\ UNCHANGED pendingUnlink

\* 'error' of the request: fs.unlink is started, the promise rejects, caught,
\* downloadFile returns null
RequestError(f) ==
  /\ alive
  /\ UNCHANGED <<env, botErrors>>
  /\ f.pc = "transfer"
  /\ MayFail(0)
  /\ pendingUnlink' = pendingUnlink \cup {f.fileName}
  /\ Resume(f, "network", <<>>)
  /\ UNCHANGED attachmentFiles

\* the callback of fs.unlink: the file is gone
UnlinkDone(fileName) ==
  /\ alive
  /\ UNCHANGED <<env, botErrors>>
  /\ fileName \in pendingUnlink
  /\ pendingUnlink' = pendingUnlink \ {fileName}
  /\ attachmentFiles' = Unlinked(attachmentFiles, fileName)
  /\ UNCHANGED <<alive, now, messageQueue, isProcessing, loops, notesFiles, delivered,
                 lastFrom, enqueued, appendLog, acks, faults>>

\* 'error' of the write stream (the open or a write fails): the stream has
\* no 'error' listener, so the event is thrown as an uncaught exception and
\* the process ends; left is whether the file was created
WriteStreamError(f) ==
  /\ alive
  /\ UNCHANGED <<env, botErrors>>
  /\ f.pc = "transfer"
  /\ MayFail(0)
  /\ faults' = faults + 1
  /\ alive' = FALSE
  /\ loops' = (loops \ {f}) \cup {[Fetched(f, "filesystem", "uncaught") EXCEPT !.pc = "uncaught"]}
  /\ \E left \in BOOLEAN :
       attachmentFiles' = IF left THEN attachmentFiles
                          ELSE Unlinked(attachmentFiles, f.fileName)
  /\ UNCHANGED <<now, messageQueue, isProcessing, notesFiles, pendingUnlink,
                 delivered, lastFrom, enqueued, appendLog, acks>>

\* the response ends early ('aborted' of the response, which has no
\* listener): the stream never finishes and the promise is never settled
ResponseAborted(f) ==
  /\ alive
  /\ UNCHANGED <<env, botErrors>>
  /\ f.pc = "transfer"
  /\ MayFail(0)
  /\ faults' = faults + 1
  /\ loops' = (loops \ {f}) \cup {[Fetched(f, "network", "stalled") EXCEPT !.pc = "stalled"]}
  /\ UNCHANGED <<alive, now, messageQueue, isProcessing, notesFiles, attachmentFiles,
                 pendingUnlink, delivered, lastFrom, enqueued, appendLog, acks>>

(***************************************************************************)
(* ctx.reply settles.                                                      *)
(***************************************************************************)
\* `isProcessing = false`, the last statement of processQueue
FlagAfterLoop == FALSE

\* ctx.reply resolves: processMessage returns and the while loop of
\* processQueue goes on with the next context, or ends and clears the flag
ReplyResolve(f) ==
  /\ alive
  /\ UNCHANGED <<env, botErrors>>
  /\ f.pc = "reply"
  /\ LET late == IF AppendsAfterReply THEN <<f>> ELSE <<>>
     IN \E t \in Later, random \in env.tokens, ok \in WriteOutcomes(0),
           crash \in BOOLEAN :
          IF Len(messageQueue) > 0
          THEN /\ messageQueue' = Shift(messageQueue).rest
               /\ Suspend(loops \ {f},
                          <<processMessage(Shift(messageQueue).ctx, t, random)>>,
                          late, <<f>>, t, ok, crash, 0)
               /\ UNCHANGED isProcessing
          ELSE /\ Suspend(loops \ {f}, <<>>, late, <<f>>, IF late = <<>> THEN now ELSE t,
                          ok, crash, 0)
               /\ isProcessing' = IF late # <<>> /\ Propagates(ok) THEN isProcessing
                                  ELSE FlagAfterLoop
               /\ UNCHANGED messageQueue
  /\ UNCHANGED <<attachmentFiles, pendingUnlink, delivered, lastFrom, enqueued>>

\* ctx.reply rejects: the exception leaves processMessage and processQueue
ReplyReject(f) ==
  /\ alive
  /\ UNCHANGED <<env, botErrors>>
  /\ f.pc = "reply"
  /\ MayFail(0)
  /\ faults' = faults + 1
  /\ loops' = loops \ {f}
  /\ acks' = [i \in DOMAIN acks |->
                IF acks[i].update_id = f.ctx.update_id /\ acks[i].status = "pending"
                THEN [acks[i] EXCEPT !.status = "failed"] ELSE acks[i]]
  /\ \E crash \in BOOLEAN : alive' = ~crash
  /\ UNCHANGED <<now, messageQueue, isProcessing, notesFiles, attachmentFiles,
                 pendingUnlink, delivered, lastFrom, enqueued, appendLog>>

Next ==
  \/ \E u \in env.updates : OnMessage(u)
  \/ \E f \in loops : GetFileLinkResolve(f)
  \/ \E f \in loops : GetFileLinkReject(f)
  \/ \E f \in loops : TransferFinish(f)
  \/ \E f \in loops : RequestError(f)
  \/ \E f \in loops : WriteStreamError(f)
  \/ \E f \in loops : ResponseAborted(f)
  \/ \E fileName \in pendingUnlink : UnlinkDone(fileName)
  \/ \E f \in loops : ReplyResolve(f)
  \/ \E f \in loops : ReplyReject(f)

Spec == Init /\ [][Next]_vars

(***************************************************************************)
(* Properties.                                                             *)
(***************************************************************************)
\* the place of the update in the order of the pushes
Pos(id) == CHOOSE i \in DOMAIN enqueued : enqueued[i].update_id = id

\* what the calls of appendToNotes in log that succeeded put in file
RECURSIVE Stored(_, _)
Stored(log, file) ==
  IF log = <<>> THEN <<>>
  ELSE (IF Head(log).ok /\ Head(log).file = file THEN Head(log).content \o <<"\n">>
        ELSE <<>>) \o Stored(Tail(log), file)

\* the frames suspended at an await that something will settle
Awaiting == {f \in loops : f.pc \in {"getFileLink", "transfer", "reply"}}

\* C1: the fragments are appended in the order in which their messages were
\* pushed on the queue, whenever the pushes happened, and every day-file
\* holds exactly the fragments appended to it, in that order.
C1_FifoArchive ==
  /\ Ids(appendLog) \subseteq Ids(enqueued)
  /\ \A i, j \in DOMAIN appendLog :
       i < j => Pos(appendLog[i].update_id) < Pos(appendLog[j].update_id)
  /\ \A i \in DOMAIN appendLog : appendLog[i].ok => appendLog[i].file \in DOMAIN notesFiles
  /\ \A file \in DOMAIN notesFiles : notesFiles[file] = Stored(appendLog, file)

\* C1 witness: three fragments in the archive, the second and the third of
\* messages that were delivered while an earlier one was suspended
C1_Witness ==
  /\ Len(appendLog) >= 3
  /\ \A i \in DOMAIN appendLog : appendLog[i].ok
  /\ \A i \in 2..3 : enqueued[Pos(appendLog[i].update_id)].busy

\* C2: at most one message is in flight through processMessage, and only
\* while the busy flag is set.
C2_OneInFlight ==
  /\ Cardinality(loops) <= 1
  /\ loops # {} => isProcessing

\* C2 witness: a message suspended at an await with two more buffered
C2_Witness == Awaiting # {} /\ Len(messageQueue) >= 2

\* the calls of downloadFile of frame f that did not save a file
FailedFetches(f) == {i \in DOMAIN f.fetched : f.fetched[i].result # "saved"}

\* the number of attachment lines in a fragment
AttachmentLines(content) ==
  Cardinality({i \in DOMAIN content : content[i] = "](../attachments/"})

\* the status of the reply to the update, "none" when ctx.reply was not called
AckStatus(replies, id) ==
  IF \E i \in DOMAIN replies : replies[i].update_id = id
  THEN replies[CHOOSE i \in DOMAIN replies : replies[i].update_id = id].status
  ELSE "none"

\* C3: every message pushed on the queue is fully processed once every fetch
\* and reply has terminated: when the process runs and no coroutine is
\* suspended any more, every pushed message has had its append attempted and
\* its acknowledgment sent.
C3_AllEnqueuedProcessed ==
  (alive /\ loops = {}) =>
    \A id \in Ids(enqueued) : id \in Ids(appendLog) /\ id \in Ids(acks)

\* C4: a failure in the processing of a message is contained to it: when the
\* processing of a message ends, by a failure too, while messages are
\* buffered, the loop takes up the oldest buffered message.
C4_FailureContained ==
  [][\A f \in loops :
       (f \in Awaiting /\ messageQueue # <<>>
          /\ \A g \in loops' : g.ctx.update_id # f.ctx.update_id)
       => \E g \in loops' : g.ctx = Head(messageQueue)]_vars

\* C5: the delivery of an update whose sender is absent or differs from the
\* allowed identity changes neither the queue nor the coroutines, the note
\* files, the attachment files or the replies.
C5_UnauthorizedIsNoOp ==
  [][(delivered' # delivered /\ lastFrom' # <<ALLOWED_USER_ID>>)
       => UNCHANGED <<messageQueue, isProcessing, loops, notesFiles, attachmentFiles,
                      pendingUnlink, enqueued, appendLog, acks>>]_vars

\* C5 witness: an update of a stranger was delivered while a message of the
\* owner was suspended in a fetch
C5_Witness ==
  /\ delivered > 1
  /\ lastFrom = <<"7">>
  /\ \E f \in loops : f.pc = "transfer"

\* C6: a message with a failed attachment fetch is still recorded: its
\* processing goes on, and the fragment appended for it holds the body text,
\* one line per attachment that was saved, and no Attachments section when
\* none was.
C6_FailedFetchStillRecorded ==
  \A f \in loops :
    FailedFetches(f) # {} =>
      /\ f \in Awaiting
      /\ f.pc = "reply" =>
           /\ \E i \in DOMAIN appendLog :
                /\ appendLog[i].update_id = f.ctx.update_id
                /\ appendLog[i].content = f.markdownContent
           /\ Truthy(f.ctx.message.text) => f.ctx.message.text[1] \in Range(f.markdownContent)
           /\ AttachmentLines(f.markdownContent) = Len(f.fetched) - Cardinality(FailedFetches(f))
           /\ Cardinality(FailedFetches(f)) = Len(f.fetched)
                => "\n**Attachments:**\n" \notin Range(f.markdownContent)

\* C7: a fetch that failed, at the resolution of the address, in the transfer
\* or at the file system, made downloadFile return null and left no file of
\* the generated name (but for one whose unlink is under way).
C7_FailedFetchReturnsNull ==
  \A f \in loops : \A i \in DOMAIN f.fetched :
    f.fetched[i].cause \in {"resolution", "network", "filesystem"} =>
      /\ f.fetched[i].result = "null"
      /\ \/ f.fetched[i].fileName \notin DOMAIN attachmentFiles
         \/ f.fetched[i].fileName \in pendingUnlink

\* C8: a failed write of appendToNotes does not propagate: the reply of the
\* message is sent in the same turn and the coroutine waits for it, and once
\* the reply is delivered the loop takes up the next buffered message, or
\* ends with the busy flag cleared.
C8_AppendFailureContained ==
  [][/\ \A i \in DOMAIN appendLog' :
          ~appendLog'[i].ok =>
            /\ appendLog'[i].update_id \in Ids(acks')
            /\ i \notin DOMAIN appendLog =>
                 /\ alive'
                 /\ \E g \in loops' :
                      g.ctx.update_id = appendLog'[i].update_id /\ g.pc = "reply"
     /\ \A f \in loops :
          (/\ f.pc = "reply"
           /\ \E i \in DOMAIN appendLog :
                appendLog[i].update_id = f.ctx.update_id /\ ~appendLog[i].ok
           /\ AckStatus(acks', f.ctx.update_id) = "delivered")
          => IF messageQueue # <<>>
             THEN \E g \in loops' : g.ctx = Head(messageQueue)
             ELSE loops' = {} /\ ~isProcessing']_vars

\* C8 witness: the write for a message failed, its reply was delivered, and
\* the next message has been appended
C8_Witness ==
  \E i, j \in DOMAIN appendLog :
    /\ i < j
    /\ ~appendLog[i].ok
    /\ AckStatus(acks, appendLog[i].update_id) = "delivered"
    /\ appendLog[j].ok

\* C9: fetches, then append, then acknowledgment: the replies follow the
\* appends message by message, none without its append, and a message
\* that is still in a fetch has neither been appended nor acknowledged.
C9_FetchAppendAck ==
  /\ Len(acks) <= Len(appendLog)
  /\ \A i \in DOMAIN acks : acks[i].update_id = appendLog[i].update_id
  /\ \A f \in loops :
       f.pc \in {"getFileLink", "transfer", "stalled", "uncaught"} =>
         f.ctx.update_id \notin Ids(appendLog) \cup Ids(acks)

\* C9 witness: a message whose attachment was fetched has been appended and
\* its reply is awaited
C9_Witness ==
  \E f \in loops :
    /\ f.pc = "reply"
    /\ f.fetched # <<>>
    /\ f.ctx.update_id \in Ids(appendLog)
    /\ AckStatus(acks, f.ctx.update_id) = "pending"

\* C10: the note archive is append-only: no day-file disappears, and the
\* content of each is a prefix of its content after any step.
C10_AppendOnly ==
  [][\A file \in DOMAIN notesFiles :
       /\ file \in DOMAIN notesFiles'
       /\ IsPrefix(notesFiles[file], notesFiles'[file])]_vars

\* C10 witness: a day-file to which a second record was appended
C10_Witness ==
  \E i, j \in DOMAIN appendLog :
    /\ i < j
    /\ appendLog[i].ok /\ appendLog[j].ok
    /\ appendLog[i].file = appendLog[j].file
    /\ IsPrefix(appendLog[i].content, notesFiles[appendLog[i].file])
    /\ Len(notesFiles[appendLog[i].file]) > Len(appendLog[i].content) + 1

\* the two instants are on one local calendar day
SameDay(t1, t2) ==
  /\ Instants[t1].year = Instants[t2].year
  /\ Instants[t1].month = Instants[t2].month
  /\ Instants[t1].date = Instants[t2].date

\* the message of the update, as it was pushed
Message(id) == enqueued[Pos(id)].message

\* where in its day-file the i-th call of appendToNotes put its content
Offset(i) == Len(Stored(SubSeq(appendLog, 1, i - 1), appendLog[i].file))

\* C11: the day-file of a record depends on the calendar day of the append
\* only: two instants of one calendar day give the same path, and two records
\* appended on the same calendar day are in the same day-file, the earlier
\* before the later, whatever the dates of their messages.
C11_DayFileOfProcessingDay ==
  /\ \A t1, t2 \in DOMAIN Instants :
       SameDay(t1, t2) => getDayNotesFile(t1) = getDayNotesFile(t2)
  /\ \A i, j \in DOMAIN appendLog :
       (i < j /\ appendLog[i].ok /\ appendLog[j].ok
          /\ SameDay(appendLog[i].at, appendLog[j].at))
       => /\ appendLog[i].file = appendLog[j].file
          /\ appendLog[j].file \in DOMAIN notesFiles
          /\ Offset(i) < Offset(j)
          /\ \A k \in {i, j} :
               SubSeq(notesFiles[appendLog[j].file], Offset(k) + 1,
                      Offset(k) + Len(appendLog[k].content)) = appendLog[k].content

\* C11 witness: two records appended at different times of one calendar day,
\* of messages whose own dates are a day apart
C11_Witness ==
  \E i, j \in DOMAIN appendLog :
    /\ i < j /\ appendLog[i].ok /\ appendLog[j].ok
    /\ appendLog[i].at # appendLog[j].at
    /\ SameDay(appendLog[i].at, appendLog[j].at)
    /\ Message(appendLog[i].update_id).date[1] \div 86400
         # Message(appendLog[j].update_id).date[1] \div 86400
    /\ appendLog[i].file = appendLog[j].file

\* C12: one day-file per calendar day: two records appended on different
\* calendar days (either side of a midnight, or the same day and month of
\* different years) are in different day-files.
C12_OneFilePerCalendarDay ==
  \A i, j \in DOMAIN appendLog :
    (appendLog[i].ok /\ appendLog[j].ok /\ ~SameDay(appendLog[i].at, appendLog[j].at))
    => appendLog[i].file # appendLog[j].file

\* C13: stored attachment file names are unique: a fetch is never given the
\* name of a file that an earlier fetch stored, so that it never overwrites
\* one (stated for the runs in which Math.random has more than one token to
\* yield).
C13_UniqueFileNames ==
  Cardinality(env.tokens) > 1 =>
    \A f \in loops : f.pc = "getFileLink" => f.fileName \notin DOMAIN attachmentFiles

\* the place of each kind in the declaration order
Rank(kind) ==
  CASE kind = "photo" -> 1 [] kind = "document" -> 2 [] kind = "video" -> 3
    [] kind = "audio" -> 4 [] kind = "voice" -> 5 [] kind = "video_note" -> 6

\* the kinds of attachment the message carries
Carried(message) == {kind \in DOMAIN TypeLabel : message[kind] # <<>>}

\* the elements of a set of numbers in ascending order
RECURSIVE Ascending(_)
Ascending(S) ==
  IF S = {} THEN <<>>
  ELSE LET least == CHOOSE m \in S : \A n \in S : m <= n
       IN <<least>> \o Ascending(S \ {least})

\* the tokens that end the target of a link or an embed
LinkEnds == {")\n", ") _("}

\* the stored names that the attachment lines of a fragment point to, in the
\* order of the lines
LinkTargets(content) ==
  LET starts == Ascending({i \in DOMAIN content : content[i] = "](../attachments/"})
      end(p) == CHOOSE q \in (p + 1)..Len(content) :
                  /\ content[q] \in LinkEnds
                  /\ \A r \in (p + 1)..(q - 1) : content[r] \notin LinkEnds
  IN [i \in DOMAIN starts |-> SubSeq(content, starts[i] + 1, end(starts[i]) - 1)]

\* the file names of the fetches of frame f that saved a file, in fetch order
SavedNames(f) ==
  LET saved == SelectSeq(f.fetched, LAMBDA e : e.result = "saved")
  IN [i \in DOMAIN saved |-> saved[i].fileName]

\* the files that a transfer is writing
BeingWritten ==
  {n \in DOMAIN attachmentFiles : ~attachmentFiles[n].complete /\ n \notin pendingUnlink}

\* C14: the attachments of one message are fetched one after another in the
\* order photo, document, video, audio, voice, video-note, never two at a
\* time, and the attachment lines of the record are those of the fetches
\* that saved a file, in that order.
C14_FetchesInDeclarationOrder ==
  /\ Cardinality(BeingWritten) <= 1
  /\ \A f \in loops :
       LET done == {f.fetched[i].kind : i \in DOMAIN f.fetched}
           inFetch == f.pc \in {"getFileLink", "transfer"}
           current == IF inFetch THEN {Kinds[f.kind]} ELSE {}
           reached == IF f.pc = "reply" THEN 6
                      ELSE IF inFetch THEN Rank(Kinds[f.kind])
                      ELSE Rank(f.fetched[Len(f.fetched)].kind)
       IN /\ \A i, j \in DOMAIN f.fetched :
               i < j => Rank(f.fetched[i].kind) < Rank(f.fetched[j].kind)
          /\ done \cap current = {}
          /\ done \cup current
               = {kind \in Carried(f.ctx.message) : Rank(kind) <= reached}
          /\ [i \in DOMAIN f.attachments |-> f.attachments[i].name] = SavedNames(f)
          /\ f.pc = "reply" => LinkTargets(f.markdownContent) = SavedNames(f)

\* C14 witness: a message with a document and a voice clip whose record waits
\* for its reply, the fetch of the document failed and the voice clip saved
C14_Witness ==
  \E f \in loops :
    /\ f.pc = "reply"
    /\ Len(f.fetched) = 2
    /\ f.fetched[1].kind = "document" /\ f.fetched[1].result = "null"
    /\ f.fetched[2].kind = "voice" /\ f.fetched[2].result = "saved"
    /\ Len(LinkTargets(f.markdownContent)) = 1

\* the tokens that open an attachment line
LinkOpeners == {"![", "- ["}

\* the attachment lines of a fragment taken apart, in the order of the lines:
\* the opening token, the display name, the stored name pointed to, and the
\* tokens after it up to the end of the line
AttachmentLinesOf(content) ==
  LET starts == Ascending({i \in DOMAIN content : content[i] = "](../attachments/"})
      open(p) == CHOOSE q \in 1..(p - 1) :
                   /\ content[q] \in LinkOpeners
                   /\ \A r \in (q + 1)..(p - 1) : content[r] \notin LinkOpeners
      end(p) == CHOOSE q \in (p + 1)..Len(content) :
                  /\ content[q] \in LinkEnds
                  /\ \A r \in (p + 1)..(q - 1) : content[r] \notin LinkEnds
  IN [i \in DOMAIN starts |->
        LET p == starts[i]
        IN [opener |-> content[open(p)],
            label |-> SubSeq(content, open(p) + 1, p - 1),
            target |-> SubSeq(content, p + 1, end(p) - 1),
            rest |-> IF content[end(p)] = ")\n" THEN <<")\n">>
                     ELSE SubSeq(content, end(p), end(p) + 2)]]

\* the fetches of frame f that saved a file, in fetch order
SavedFetches(f) == SelectSeq(f.fetched, LAMBDA e : e.result = "saved")

\* the file name the source declared for the attachment of that kind, if any
Declared(message, kind) ==
  IF kind \in {"document", "audio"} /\ message[kind][1].file_name # <<>>
       /\ message[kind][1].file_name[1] # <<>>
  THEN message[kind][1].file_name
  ELSE <<>>

\* the kind label of a link line
LinkLabel(kind) ==
  CASE kind = "document" -> "Document" [] kind = "audio" -> "Audio"
    [] kind = "voice" -> "Voice"

\* the line is that of the saved fetch e: an image embed for photo, video
\* and video note, a link line with the kind label for the others
LineOfKind(line, e) ==
  /\ line.target = e.fileName
  /\ IF e.kind \in {"photo", "video", "video_note"}
     THEN line.opener = "![" /\ line.rest = <<")\n">>
     ELSE line.opener = "- [" /\ line.rest = <<") _(", LinkLabel(e.kind), ")_\n">>

\* the display name when the source declared none, as the claim has it and
\* as amended
StoredNameWhenUndeclared(e) == e.fileName

DefaultBaseWhenUndeclared(e) ==
  CASE e.kind = "document" -> <<"d", "o", "c", "u", "m", "e", "n", "t">>
    [] e.kind = "audio" -> <<"a", "u", "d", "i", "o">>
    [] OTHER -> e.fileName

OfLastVariant(photo, file_id) ==
  /\ \E k \in DOMAIN photo : photo[k].file_id = file_id
  /\ \A k \in DOMAIN photo : photo[k].file_id = file_id => k = Len(photo)

\* C16: whatever variants a photo message offers, the media reference that
\* is fetched (that the file is written from, and that the fetch is recorded
\* with) is the one of the last variant, never that of an earlier one.
C16_LastPhotoVariant ==
  \A f \in loops :
    /\ (f.pc = "transfer" /\ Kinds[f.kind] = "photo" /\ f.fileName \in DOMAIN attachmentFiles)
         => OfLastVariant(f.ctx.message.photo, attachmentFiles[f.fileName].file_id)
    /\ \A i \in DOMAIN f.fetched :
         f.fetched[i].kind = "photo"
           => OfLastVariant(f.ctx.message.photo, f.fetched[i].file_id)

\* C16 witness: the photo of a message with three variants has been saved
\* from the reference of the third
C16_Witness ==
  \E f \in loops :
    /\ Len(f.ctx.message.photo) = 3
    /\ f.pc = "reply"
    /\ f.fetched[1].result = "saved"
    /\ f.fetched[1].file_id = f.ctx.message.photo[3].file_id
    /\ attachmentFiles[f.fetched[1].fileName].file_id = "pa_large"

\* the characters of a fragment: the tokens that hold line breaks and the
\* two-digit numbers are taken apart
Spelled(content) ==
  Flatten([i \in DOMAIN content |->
             CASE content[i] = "\n---\n" -> <<"\n", "---", "\n">>
               [] content[i] = "\n\n" -> <<"\n", "\n">>
               [] \E n \in 10..99 : content[i] = ToString(n) ->
                    LET n == CHOOSE n \in 10..99 : content[i] = ToString(n)
                    IN <<ToString(n \div 10), ToString(n % 10)>>
               [] OTHER -> <<content[i]>>])

\* HH:MM:SS of a Unix time, zero-padded
ClockTime(date) ==
  LET sec == date % 86400
      two(n) == <<ToString(n \div 10), ToString(n % 10)>>
  IN two(sec \div 3600) \o <<":">> \o two((sec % 3600) \div 60) \o <<":">> \o two(sec % 60)

\* the part of a fragment between the blank line that ends the header and
\* the Attachments section or the trailing separator
BodyOf(content) ==
  LET from == CHOOSE i \in DOMAIN content :
                content[i] = "\n\n" /\ \A j \in 1..(i - 1) : content[j] # "\n\n"
      stops == {i \in (from + 1)..Len(content) :
                  content[i] \in {"\n**Attachments:**\n", "\n---\n"}}
      to == CHOOSE i \in stops : \A j \in stops : i <= j
  IN SubSeq(content, from + 1, to - 1)

\* a field of the message is present and not the empty string
Present(field) == field # <<>> /\ field[1] # ""

\* a message with a text and nothing else: no caption, provenance or media
TextOnly(message) ==
  /\ Present(message.text) /\ message.caption = <<>> /\ message.date # <<>>
  /\ message.forward_from = <<>> /\ message.forward_from_chat = <<>>
  /\ message.forward_sender_name = <<>>
  /\ Carried(message) = {}

AnnotationOf(content) ==
  LET bold == Ascending({i \in DOMAIN content : content[i] = "**"})
      blank == CHOOSE i \in DOMAIN content :
                 content[i] = "\n\n" /\ \A j \in 1..(i - 1) : content[j] # "\n\n"
  IN SubSeq(content, bold[2] + 1, blank - 1)

\* the names each forward field gives
UserNames(message) ==
  {message.forward_from[k].username[1] :
     k \in {k \in DOMAIN message.forward_from : Present(message.forward_from[k].username)}}
  \cup {message.forward_from[k].first_name[1] :
          k \in {k \in DOMAIN message.forward_from :
                   Present(message.forward_from[k].first_name)}}

ChatNames(message) ==
  {message.forward_from_chat[k].title[1] : k \in DOMAIN message.forward_from_chat}

SenderNames(message) == Range(message.forward_sender_name)

\* C18: the provenance annotation of every record names the forwarding
\* user when the message has one, else the chat when it has one, else the
\* free-text sender name when it has one, and never a field of lower
\* precedence; it is empty when the message has none of the three.
C18_ForwardPrecedence ==
  \A i \in DOMAIN appendLog :
    LET message == Message(appendLog[i].update_id)
        annotation == AnnotationOf(appendLog[i].content)
        named == Range(annotation)
    IN IF message.forward_from # <<>>
       THEN /\ Head(annotation) = " - Forwarded from "
            /\ named \cap UserNames(message) # {}
            /\ named \cap (ChatNames(message) \cup SenderNames(message)) = {}
       ELSE IF message.forward_from_chat # <<>>
       THEN /\ Head(annotation) = " - Forwarded from "
            /\ named \cap ChatNames(message) # {}
            /\ named \cap SenderNames(message) = {}
       ELSE IF Present(message.forward_sender_name)
       THEN /\ Head(annotation) = " - Forwarded from "
            /\ named \cap SenderNames(message) # {}
       ELSE annotation = <<>>

\* C18 witness: the record of a message with all three forward fields, whose
\* annotation names the user
C18_Witness ==
  \E i \in DOMAIN appendLog :
    /\ Message(appendLog[i].update_id).forward_from # <<>>
    /\ Message(appendLog[i].update_id).forward_from_chat # <<>>
    /\ Message(appendLog[i].update_id).forward_sender_name # <<>>
    /\ AnnotationOf(appendLog[i].content) = <<" - Forwarded from ", "@", "alice">>

\* C19: a push starts a processing loop only if none is active, and then the
\* loop processes the message pushed; a loop that terminates leaves the busy
\* flag cleared, so that the next push starts a new loop.
C19_LoopRestarts ==
  [][LET pushed == Len(enqueued') > Len(enqueued)
         started == {g \in loops' : \A f \in loops : g.ctx.update_id # f.ctx.update_id}
     IN /\ (pushed /\ started # {}) => (loops = {} /\ ~isProcessing)
        /\ (pushed /\ loops = {}) =>
             \E g \in started : g.ctx.update_id = enqueued'[Len(enqueued')].update_id
        /\ (loops # {} /\ loops' = {} /\ alive') => ~isProcessing']_vars

\* C20: an exception that escapes processMessage in the processing loop is
\* logged by the handler of bot.catch and does not end the process.
C20_EscapedExceptionLogged ==
  \A i \in DOMAIN acks :
    acks[i].status = "failed" => (alive /\ acks[i].update_id \in botErrors)

\* C21: whenever control is back at the event loop, a non-empty buffer
\* implies that the busy flag is set, and a buffered message is never left
\* without an active drain loop: while the process runs, a non-empty buffer
\* implies that a processQueue coroutine exists.
C21_BufferedImpliesDraining ==
  /\ messageQueue # <<>> => isProcessing
  /\ (alive /\ messageQueue # <<>>) => loops # {}

\* the number of entries of a log that are of the update
Count(log, id) == Cardinality({i \in DOMAIN log : log[i].update_id = id})

\* C22: every message pushed is taken from the buffer and handed to
\* processMessage at most once: it is never both buffered and in processing
\* or buffered twice, it has at most one fragment appended and at most one
\* acknowledgment, only after it left the buffer, and there are never more
\* fragments than authorized messages received.
C22_ProcessedAtMostOnce ==
  /\ \A id \in Ids(enqueued) :
       /\ Count(enqueued, id) = 1
       /\ Count(appendLog, id) <= 1
       /\ Count(acks, id) <= 1
       /\ Count(messageQueue, id) + Cardinality({f \in loops : f.ctx.update_id = id}) <= 1
       /\ Count(messageQueue, id) = 1 => Count(appendLog, id) + Count(acks, id) = 0
  /\ Ids(appendLog) \cup Ids(acks) \cup Ids(messageQueue) \subseteq Ids(enqueued)
  /\ Len(appendLog) <= Len(enqueued)
  /\ Len(enqueued) <= delivered

\* C22 witness: three messages, the second and the third pushed while the
\* first was in processing, each appended once and acknowledged once, the
\* buffer empty and the loop ended
C22_Witness ==
  /\ Len(enqueued) = 3
  /\ enqueued[2].busy /\ enqueued[3].busy
  /\ Len(appendLog) = 3 /\ Len(acks) = 3
  /\ \A i \in DOMAIN acks : acks[i].status = "delivered"
  /\ messageQueue = <<>> /\ loops = {} /\ ~isProcessing

====
